---- MODULE Spec2Model ----
(***************************************************************************)
(* A model of src/clock.py ("Presence Clock"): the token table, the        *)
(* DriftClock, the settings record with its dialog, and the action tick's  *)
(* domain choice.                                                          *)
(*                                                                         *)
(* Units.  Floating-point quantities are scaled to integers:               *)
(*   drift, drift_range  in units of 0.001 s  (0.002 -> 2)                 *)
(*   reset_prob, random() in thousandths      (0.02 -> 20, 1.0 -> 1000)    *)
(*   dominance weights and the uniform(0, m+k) draw in whole percent.      *)
(* Multiplying by 8 and clamping are exact in binary floating point, so    *)
(* the integer arithmetic below follows the code's arithmetic.             *)
(* Python indexes from 0; sequences here index from 1, so TOKENS[i] of the *)
(* code is TOKENS[i + 1] here.                                             *)
(***************************************************************************)
EXTENDS Integers, Sequences, FiniteSets, TLC

VARIABLES
    TOKENS,       \* module global TOKENS (<<>> until the module is loaded)
    clock,        \* the DriftClock instance (MiniUI.clock), or None
    call,         \* the most recent DriftClock / module call and its locals
    memo,         \* one remembered earlier emission (observer for determinism)
    state,        \* MiniUI.state, the settings record
    dlg,          \* the SettingsDialog while its exec() loop runs, or None
    run_flag,     \* MiniUI._run_flag
    paused,       \* MiniUI._paused
    mode_index,   \* MiniUI.mode_index  0=Mouse, 1=Keyboard, 2=Auto
    driver,       \* MiniUI.driver is not None
    watcher,      \* MiniUI.watcher (the PresenceWatcher's fields), or None
    timer_action, \* period of timer_action in ms, 0 when stopped
    timer_cycle,  \* period of timer_cycle in ms, 0 when stopped
    cur_step,     \* MiniUI.cur_step
    last_bits,    \* MiniUI.last_bits, the recent-bit history
    ui,           \* the most recent UI event and what it surfaced
    now,          \* time.time(), in ms
    last_emit_ts, \* MiniUI.last_emit_ts, in ms
    thread,       \* the watcher's thread: its position in run() and run()'s
                  \* locals, or None before the first watcher.start()
    orphans,      \* the watchers MiniUI.watcher no longer refers to whose
                  \* threads have not returned from run(), each with its thread
    surfaced      \* observer of the token label: the times the cycle ticks
                  \* last surfaced a token

vars == <<TOKENS, clock, call, memo, state, dlg, run_flag, paused, mode_index,
          driver, watcher, timer_action, timer_cycle, cur_step, last_bits, ui,
          now, last_emit_ts, thread, orphans, surfaced>>

clockVars == <<clock, call, memo>>
appVars == <<state, dlg, run_flag, paused, mode_index, driver, watcher,
             timer_action, timer_cycle, cur_step, last_bits, ui,
             now, last_emit_ts, thread, orphans, surfaced>>

----------------------------------------------------------------------------
(* Bounds of the model.                                                    *)

MaxCycle == 2        \* cycle_bits offered by the settings surface: 1..MaxCycle
MaxBuf == 3          \* SpecClock: add_bit up to this buffer length
MaxWindows == 2      \* SpecClock: emit up to this window_counter
MaxRange == 2        \* SpecDrift: drift_range offered 0..MaxRange (units of 0.001)
MaxEmits == 9        \* SpecDrift: emit up to this window_counter
MaxLeftover == 5     \* SpecReset: bits queued beyond a one-bit window
MaxResets == 2       \* SpecReset: emit up to this window_counter
MaxScenarioEmits == 1 \* SpecWindow8: emit up to this window_counter
MaxSwaps == 1        \* transpositions composed into one shuffle outcome
MaxSwapIdx == 1      \* a transposition moves one of the slots 0..MaxSwapIdx
MaxTime == 5000      \* SpecWatcher: ms of time.time() covered after construction
MaxStopTime == 300   \* SpecStop: ms of time.time() covered while a watcher runs
MaxSessionTime == 2000 \* SpecSession: ms of time.time() covered
MaxSessionWindows == 1  \* SpecSession: ticks emit up to this window_counter
MaxKeepaliveTime == 13000 \* SpecKeepalive: ms of time.time() covered
MaxKeepaliveWindows == 1   \* SpecKeepalive: ticks emit up to this window_counter
MaxHistoryTime == 9000  \* SpecHistory: ms of time.time() covered
MaxStepRaise == 7    \* SpecPointer: px the dialog raises the base step by
MaxRaceTime == 1000  \* SpecRace: ms of time.time() covered
MaxCadenceTime == 7000   \* SpecCadence: ms of time.time() covered
MaxCadenceWindows == 7   \* SpecCadence: emit up to this window_counter
MaxCadenceCycle == 3     \* SpecCadence: cycle_bits offered 1..MaxCadenceCycle
MaxOrphans == 0      \* SpecWatcher: replaced watchers whose threads still run

----------------------------------------------------------------------------
(* Program constants (clock.py lines 37-52).                               *)

CYCLE_BITS_DEFAULT == 120
TOKEN_DRIFT_RANGE_DEFAULT == 2
RESET_TOKEN == "<RESET>"
RESET_PROBABILITY_DEFAULT == 20
ACTION_PERIOD_SEC_DEFAULT == 1000
PRESENCE_POLL_INTERVAL_DEFAULT == 250
MOUSE_STEP_DEFAULT == 24
MOUSE_ACCEL_DEFAULT == 4
MOUSE_MAX_STEP_DEFAULT == 96
KEY_DELAY_DEFAULT == 30
MOUSE_DOMINANCE_DEFAULT == 60
KEY_DOMINANCE_DEFAULT == 40
TableSize == 64
OFFLINE_GRACE_SECONDS == 4000   \* ms
keepalive_seconds == 12000      \* ms
HistoryCap == 64
DriftClampFactor == 8

None == [none |-> TRUE]
IsNone(x) == "none" \in DOMAIN x

Min(a, b) == IF a < b THEN a ELSE b
Max(a, b) == IF a > b THEN a ELSE b
Abs(a) == IF a < 0 THEN -a ELSE a
Range(s) == {s[i] : i \in DOMAIN s}

\* Python slices s[:n] and s[n:]
Take(s, n) == IF n >= Len(s) THEN s ELSE SubSeq(s, 1, n)
Drop(s, n) == IF n >= Len(s) THEN <<>> ELSE SubSeq(s, n + 1, Len(s))

----------------------------------------------------------------------------
(* TOKEN TABLE: make_token_table, clock.py 55-72.                          *)

BaseSymbols ==
    << "A","B","C","D","E","F","G","H","I","J","K","L","M",
       "N","O","P","Q","R","S","T","U","V","W","X","Y","Z",
       "a","b","c","d","e","f","g","h","i","j","k","l","m",
       "n","o","p","q","r","s","t","u","v","w","x","y","z",
       "0","1","2","3","4","5","6","7","8","9",
       "!","@","#","$","%","^","&","*","(",")","-","_","=",
       "+","[","]","{","}",";",":",",","<",".",">","/","?" >>

\* while len(base) < 64: base += base
RECURSIVE GrowBase(_)
GrowBase(base) == IF Len(base) < TableSize THEN GrowBase(base \o base) ELSE base

\* if RESET_TOKEN not in base: base[0] = RESET_TOKEN
ForceReset(base) ==
    IF RESET_TOKEN \notin Range(base) THEN [base EXCEPT ![1] = RESET_TOKEN] ELSE base

\* One transposition of the slots p[1], p[2] (0-based, as in the code).
SwapSlots(base, p) ==
    [base EXCEPT ![p[1] + 1] = base[p[2] + 1], ![p[2] + 1] = base[p[1] + 1]]

\* r.shuffle(base): the outcome is a permutation of base; the permutations
\* explored are the products of the transpositions in `swaps`.
RECURSIVE shuffle(_, _)
shuffle(base, swaps) ==
    IF swaps = <<>> THEN base
    ELSE shuffle(SwapSlots(base, Head(swaps)), Tail(swaps))

\* Mutant of make_token_table: the truncation to 64 entries is missing.
make_token_table_untruncated(randomize, swaps) ==
    LET base2 == ForceReset(GrowBase(BaseSymbols))
    IN  IF randomize THEN ForceReset(shuffle(base2, swaps)) ELSE base2

make_token_table(randomize, swaps) ==
    LET base0 == GrowBase(BaseSymbols)
        base1 == Take(base0, TableSize)
        base2 == ForceReset(base1)
    IN  IF randomize THEN ForceReset(shuffle(base2, swaps)) ELSE base2

\* The shuffle outcomes explored when the module is loaded.
SwapPairs == {p \in (0 .. MaxSwapIdx) \X (0 .. TableSize - 1) : p[1] < p[2]}
SwapSeqs == UNION {[1 .. n -> SwapPairs] : n \in 0 .. MaxSwaps}

\* The tables a run starts from: a shuffle that puts the sentinel in slot
\* 11, where the one-bit window [1] hashes, and the unshuffled table.
ShuffledTable == make_token_table(TRUE, << <<0, 11>> >>)
StartTables == {make_token_table(FALSE, <<>>), ShuffledTable}

----------------------------------------------------------------------------
(* CLOCK: sha_index and DriftClock, clock.py 283-318.                      *)

\* bytes(int(b) for b in bits) as a table key: a leading 1 followed by the
\* bits in arrival order, read as a binary number.
RECURSIVE BitsValue(_)
BitsValue(bits) ==
    IF bits = <<>> THEN 0
    ELSE 2 * BitsValue(SubSeq(bits, 1, Len(bits) - 1)) + bits[Len(bits)]

RECURSIVE Pow2(_)
Pow2(n) == IF n = 0 THEN 1 ELSE 2 * Pow2(n - 1)

BytesKey(bits) == Pow2(Len(bits)) + BitsValue(bits)

\* hashlib.sha256(bytes(bits)).digest()[0] for every bit sequence of length
\* 0..8, tabulated from hashlib; entry BytesKey(bits).
Sha256Byte0 ==
   <<
      227, 110,  75, 150, 180,  71, 157, 112, 207, 250, 251, 251, 133, 159, 117, 223,
      180, 107,  74, 191, 118, 213, 203, 103, 175,  80,  82, 160,  37, 248,  39, 136,
       21,   6, 161,   0, 124, 117, 142, 134, 204,   1,  31,  49, 171,  81, 197, 149,
      161,   0, 133, 156, 164, 246,  75, 179, 222,  40, 145, 222, 170,  73,  55, 176,
       24,  88, 124,  16,   8,  71, 217,   2, 189,  47, 161,  65, 215, 210, 205,   1,
      241, 236, 150, 125, 123, 234, 235, 138,   7, 107,  88, 182, 109,  14,  82,  54,
       17, 169, 113, 145, 123, 202, 254, 134,  75, 205, 231,  77,  90,  71, 114,  26,
       88, 142,   6, 253,  36,  67, 247, 112,  82, 176,  66, 105, 159, 208, 223, 131,
      119, 112, 212, 172,   4,   6,  47, 152,  66, 103,  83, 185, 247, 193, 211,  93,
      238, 184,  61, 103, 105, 111, 183, 124, 245,  47, 215, 141,   0,  60,  10, 146,
      205, 234,  91, 162, 190,  73, 145,  60, 115, 254,  42, 128, 153, 161, 121,  26,
      193,  48,  53, 119, 134,  65, 117,  57, 195,  97, 167, 137, 168, 177, 158, 132,
      154, 102, 246, 226, 179,  82,  85, 124, 236, 209, 133,  38,  45, 226, 205,  94,
       93, 171,  92, 231, 254,  92, 213,  60, 248, 253, 141, 199,  86, 213, 148, 149,
      173, 146,  99, 216, 122,  71, 104,  87,  92, 246, 243, 162, 166,  43, 128,  99,
       35,  79, 109, 223,  29, 226,  24, 113, 205, 188, 241, 234, 184, 139, 195, 175,
      205,  48, 172, 190, 157, 244,  80,   1, 174,  35, 146, 238, 201, 241,  91, 203,
       87, 218, 189,  60,  79,  82, 111, 108, 241,  54,  15, 217,  46, 237, 117,  65,
      126,   5, 246,  12, 124,  61, 121, 212, 182, 120, 161, 137, 180, 194, 110,  79,
       47, 228, 230,  66,  85, 109,  86,  75, 127, 111,  77, 176,  20,  84, 248,  46,
      128,  20, 231,  97, 192, 185, 192, 147, 185, 224,  96, 197,  97, 137, 190,  96,
      175, 113, 115, 113, 157,  37, 185, 152, 135,  85, 112, 106, 144, 239,  38,  85,
        9,  54, 187, 146, 220,  93,  54,  80, 209, 181,  84, 185, 111,  81,  10, 135,
      180, 192, 128, 222,  73,  38,   9, 143, 106, 242, 192, 141,  62, 165,  88, 124,
       31, 249,  64,  36, 107, 149, 203, 100,  23, 146, 127, 184, 148,  97, 185, 212,
      100, 150,  89, 127,  49, 244,  81, 122, 104, 205, 144, 101, 244,  65,  72,  87,
      112,  92,  11, 159, 106, 177, 198, 231, 183, 239, 142,  41, 245,  13, 247, 220,
      184, 148, 186,  65, 188, 224,  23,   0, 163, 201, 235,  61,  22, 112, 150,  74,
      109,  17, 208, 231, 111, 245, 118,  48,  79, 126, 252, 224, 239,  80,  58, 176,
       41, 255, 242, 150,  53,  11, 145,  77,  65,   9, 135, 192, 175,  37, 103,  69,
      215, 240,  90,  59, 221,  98,  83, 104,  91, 167,  95, 183, 135, 167, 175,  79,
       45, 100, 124,  39, 232, 184, 229, 199, 207, 154, 106,  97, 217,  35,   4
   >>

\* hashlib.sha256(bytes(w + [1,0,1,0,0,1,0,1])).digest()[0] for every 8-bit
\* sequence w, tabulated from hashlib; entry BitsValue(w) + 1.
SALT == <<1, 0, 1, 0, 0, 1, 0, 1>>

Sha256Byte0Salted ==
   <<
      120,  19, 169,  64, 199,  69, 182,  14, 202, 142,  92, 103,  12, 181, 143,  78,
      140, 203,  71, 218, 107,  53, 209,  78, 227, 109, 147,  15, 140, 220,  74, 245,
       70, 252, 230, 103,  34,  78,  68,  31, 123, 173,  49, 164,  77, 226, 194,  16,
      169, 201,  19,  62, 237,  70, 164, 197,  36, 170, 228,  17,  72, 170,  75, 237,
      205,  71, 106,  87, 226, 152,   0,  33,  24,  36,  27,  11,   8, 157, 127, 228,
       41, 121,  65, 164, 227,  88, 239, 142, 206, 224,  16, 112, 190, 114,  69, 175,
      162, 226, 222, 200, 143, 118, 217,  53, 118,  40, 250,  65, 156, 104,  22, 212,
      128,  30, 189,  98, 181,   3, 142,   3,   5, 103, 194,  75, 178, 218, 130, 228,
      105,  67, 182, 209, 146, 225,  13, 138, 150,  56, 173,  94, 189, 254,  45, 167,
      243,  18, 212, 226, 183,  77, 234, 251, 106, 246, 177,  70,  90, 200, 151, 147,
      130,  72,  72,  22, 139, 121,  42, 169, 151, 203,  58, 196,  84,  88, 211, 115,
      155, 159, 231,  88, 237, 157, 248, 252,  10, 130,  53,   7, 246, 215, 178, 155,
      129, 227, 227, 224, 172, 195, 192, 136, 179, 161, 191, 232,  61, 201,  24, 179,
      195, 174, 172,  31, 125,  57, 133, 229, 227,   1,  97, 130, 236, 113, 120, 216,
      126, 179,  44, 227,  46,  45,  39, 209,  77, 216, 158, 237, 221, 235, 202, 226,
       45, 218,  21, 175,  15,  70,  65,  62, 152, 207, 191, 246, 243,  72, 172,  40
   >>

\* hashlib.sha256(bytes([0]*n + [1,0,1,0,0,1,0,1])).digest()[0] and the same
\* for [1]*n, for the history lengths n = 9 .. 64 beyond the table above,
\* tabulated from hashlib; entry n - 8.
Sha256Byte0SaltedZeros ==
   <<
       37, 122, 204, 131, 155, 144,  38, 140, 102,  77,  29, 176, 196, 231, 245,  28,
       42,  14,  67,  18, 214,  12, 244,   7, 231,  71,  93,  37, 161, 101, 230, 156,
      255,  72, 156,  64, 209, 181, 213, 177, 107,  84, 144,  19,  47, 116, 230,  40,
      254, 226, 234, 136, 254,   2, 240,  85
   >>

Sha256Byte0SaltedOnes ==
   <<
       32,  99,  38, 123, 250, 132, 222,  69,  50, 220,  63, 129,  77,   3, 231,  21,
        1,  64,  92, 178, 243,  53, 161,  58, 111,  20, 115, 159,  57,  79, 122, 171,
      127, 107, 219, 157,  17, 131,  99,  80,  29, 118, 145, 171, 128,  98, 213, 118,
       54,  92,   6,  56,  95,  19, 196, 192
   >>

\* A sequence of n bits, all b.
Repeat(b, n) == [i \in 1 .. n |-> b]

\* hashlib.sha256(bytes(int(b) for b in bits)).digest()[0], on the inputs
\* tabulated above.
sha256_byte0(bits) ==
    LET n == Len(bits) - Len(SALT)
    IN  IF Len(bits) <= 8 THEN Sha256Byte0[BytesKey(bits)]
        ELSE IF SubSeq(bits, n + 1, Len(bits)) # SALT THEN CHOOSE x \in {} : TRUE
        ELSE IF n = 8 THEN Sha256Byte0Salted[BitsValue(SubSeq(bits, 1, 8)) + 1]
        ELSE IF n > HistoryCap THEN CHOOSE x \in {} : TRUE
        ELSE IF SubSeq(bits, 1, n) = Repeat(0, n) THEN Sha256Byte0SaltedZeros[n - 8]
        ELSE IF SubSeq(bits, 1, n) = Repeat(1, n) THEN Sha256Byte0SaltedOnes[n - 8]
        ELSE CHOOSE x \in {} : TRUE

\* Mutants of sha_index: a five-bit mask, and no mask at all.
sha_index_mask5(bits) == sha256_byte0(bits) % 32
sha_index_unmasked(bits) == sha256_byte0(bits)

\* ... & 0b111111
sha_index(bits) == sha256_byte0(bits) % 64

DriftClock(cycle_bits, drift_range, reset_prob) ==
    [ bits           |-> <<>>,
      cycle_bits     |-> Max(1, cycle_bits),
      drift_range    |-> drift_range,
      reset_prob     |-> reset_prob,
      drift          |-> 0,
      window_counter |-> 0 ]

reset_params(c, cycle_bits, drift_range, reset_prob) ==
    [c EXCEPT !.cycle_bits  = Max(1, cycle_bits),
              !.drift_range = drift_range,
              !.reset_prob  = reset_prob]

add_bit(c, b) == [c EXCEPT !.bits = Append(@, IF b # 0 THEN 1 ELSE 0)]

\* Mutant of full: the buffer must exceed cycle_bits.
full_strict(c) == Len(c.bits) > c.cycle_bits

full(c) == Len(c.bits) >= c.cycle_bits

\* TOKENS[idx % 64]; a miss is Python's IndexError.
token_at(idx) ==
    IF (idx % 64) + 1 \in DOMAIN TOKENS THEN TOKENS[(idx % 64) + 1] ELSE "IndexError"

\* Mutant of clamp_drift: the lower clamp is missing.
clamp_drift_upper_only(d, drift_range) == Min(d, drift_range * DriftClampFactor)

\* self.drift = max(min(self.drift, self.drift_range*8), -self.drift_range*8)
clamp_drift(d, drift_range) ==
    Max(Min(d, drift_range * DriftClampFactor), -(drift_range * DriftClampFactor))

\* token == RESET_TOKEN and random.random() < self.reset_prob
reset_fires(token, r, reset_prob) == token = RESET_TOKEN /\ r < reset_prob

\* Mutants of emit: the token depends on the number of windows emitted so
\* far; the whole buffer is dropped with the window; a reset zeroes the drift
\* and keeps the leftover bits.
emit_counts_windows(c, u, r) ==
    LET out   == Take(c.bits, c.cycle_bits)
        rest  == Drop(c.bits, c.cycle_bits)
        idx   == sha_index(out)
        token == TOKENS[((idx + c.window_counter) % 64) + 1]
        d     == Max(Min(c.drift + u, c.drift_range * 8), -(c.drift_range * 8))
        fire  == token = RESET_TOKEN /\ r < c.reset_prob
    IN  [ clock |-> [c EXCEPT !.bits = IF fire THEN <<>> ELSE rest,
                              !.drift = IF fire THEN 0 ELSE d,
                              !.window_counter = @ + 1],
          out |-> out, idx |-> idx, token |-> token, reset |-> fire ]

emit_drops_buffer(c, u, r) ==
    LET out   == Take(c.bits, c.cycle_bits)
        idx   == sha_index(out)
        token == TOKENS[(idx % 64) + 1]
        d     == Max(Min(c.drift + u, c.drift_range * 8), -(c.drift_range * 8))
        fire  == token = RESET_TOKEN /\ r < c.reset_prob
    IN  [ clock |-> [c EXCEPT !.bits = <<>>,
                              !.drift = IF fire THEN 0 ELSE d,
                              !.window_counter = @ + 1],
          out |-> out, idx |-> idx, token |-> token, reset |-> fire ]

emit_reset_keeps_leftover(c, u, r) ==
    LET out   == Take(c.bits, c.cycle_bits)
        rest  == Drop(c.bits, c.cycle_bits)
        idx   == sha_index(out)
        token == TOKENS[(idx % 64) + 1]
        d     == Max(Min(c.drift + u, c.drift_range * 8), -(c.drift_range * 8))
        fire  == token = RESET_TOKEN /\ r < c.reset_prob
    IN  [ clock |-> [c EXCEPT !.bits = rest,
                              !.drift = IF fire THEN 0 ELSE d,
                              !.window_counter = @ + 1],
          out |-> out, idx |-> idx, token |-> token, reset |-> fire ]

\* emit(): u is the value of random.uniform(-drift_range, drift_range) and
\* r the value of random.random().  The result carries the new clock, the
\* returned token and the locals.
emit(c, u, r) ==
    LET out   == Take(c.bits, c.cycle_bits)
        rest  == Drop(c.bits, c.cycle_bits)
        idx   == sha_index(out)
        token == token_at(idx)
        d     == clamp_drift(c.drift + u, c.drift_range)
        fire  == reset_fires(token, r, c.reset_prob)
    IN  [ clock |-> [c EXCEPT !.bits = IF fire THEN <<>> ELSE rest,
                              !.drift = IF fire THEN 0 ELSE d,
                              !.window_counter = @ + 1],
          out   |-> out,
          idx   |-> idx,
          token |-> token,
          reset |-> fire ]

\* The values random.uniform(-dr, dr) and random.random() are drawn from.
UniformDraws(dr) == (-dr) .. dr
RandomDraws == {0, 19, 20, 999}

\* The values the settings surface offers (SettingsDialog spin boxes).
CycleChoices == 1 .. MaxCycle
RangeChoices == 0 .. MaxRange
ResetChoices == {RESET_PROBABILITY_DEFAULT, 1000}

----------------------------------------------------------------------------
(* Observers.  `call` holds the most recent call on the clock with the     *)
(* values of its locals and its return value; `memo` may keep one earlier  *)
(* emission to compare later emissions with.                               *)

Call(op) ==
    [ op |-> op, cycle_bits |-> 0, pre |-> <<>>, drift0 |-> 0, out |-> <<>>,
      idx |-> 0, token |-> "None", reset |-> FALSE, shuffled |-> FALSE ]

EmitCall(c, e) ==
    [ op |-> "emit", cycle_bits |-> c.cycle_bits, pre |-> c.bits,
      drift0 |-> c.drift, out |-> e.out, idx |-> e.idx, token |-> e.token,
      reset |-> e.reset, shuffled |-> FALSE ]

Observation(c, e) ==
    [ cycle_bits |-> c.cycle_bits, out |-> e.out, token |-> e.token,
      n |-> e.clock.window_counter ]

----------------------------------------------------------------------------
(* MiniUI.__init__, clock.py 453-466 and 506-522.                          *)

InitState ==
    [ cycle_bits    |-> CYCLE_BITS_DEFAULT,
      action_period |-> ACTION_PERIOD_SEC_DEFAULT,
      drift_range   |-> TOKEN_DRIFT_RANGE_DEFAULT,
      reset_prob    |-> RESET_PROBABILITY_DEFAULT,
      presence_poll |-> PRESENCE_POLL_INTERVAL_DEFAULT,
      mouse_step    |-> MOUSE_STEP_DEFAULT,
      mouse_accel   |-> MOUSE_ACCEL_DEFAULT,
      mouse_max     |-> MOUSE_MAX_STEP_DEFAULT,
      key_delay     |-> KEY_DELAY_DEFAULT,
      adminless     |-> TRUE,
      mouse_dom     |-> MOUSE_DOMINANCE_DEFAULT,
      key_dom       |-> KEY_DOMINANCE_DEFAULT ]

\* What the last handler surfaced: the event, the token and the action tick's
\* domain, action class and result tag, or the cycle tick's tag (in kind) and
\* presence label and the time.time() it read (t); seed is the hash input an
\* action tick built, prev the action class of the action tick before it when
\* no other event came between, step0 the step size it found; key_entered is
\* the value the dialog's key-dominance field held when Apply was clicked.
Event(ev) ==
    [ ev |-> ev, token |-> "None", domain |-> "None", kind |-> "None",
      result |-> "None", key_entered |-> 0, presence |-> "None", t |-> 0,
      seed |-> <<>>, prev |-> "None", step0 |-> 0 ]

\* time.time() when the window is constructed: seconds since the epoch, far
\* beyond the grace and keepalive intervals the code compares differences of
\* time with.
StartTime == OFFLINE_GRACE_SECONDS + keepalive_seconds

AppInit ==
    /\ state = InitState
    /\ dlg = None
    /\ run_flag = FALSE
    /\ paused = FALSE
    /\ mode_index = 2
    /\ driver = FALSE
    /\ watcher = None
    /\ timer_action = 0
    /\ timer_cycle = 0
    /\ cur_step = InitState.mouse_step
    /\ last_bits = <<>>
    /\ ui = Event("init")
    /\ now = StartTime
    /\ last_emit_ts = 0
    /\ thread = None
    /\ orphans = {}
    /\ surfaced = [cycle |-> 0, any |-> 0, before |-> 0]

----------------------------------------------------------------------------
(* The DriftClock's methods as steps.  Each specification below drives the *)
(* same steps with its own bounds and its own part of the settings range;  *)
(* when_full restricts emit() to a full buffer, observe lets the step      *)
(* remember its emission.                                                  *)

NewClock(CB, DR, RP) ==
    /\ \E cb \in CB, dr \in DR, rp \in RP : clock = DriftClock(cb, dr, rp)
    /\ call = Call("new")
    /\ memo = None

ClockAddBit(maxbuf) ==
    /\ Len(clock.bits) < maxbuf
    /\ \E b \in {0, 1} : clock' = add_bit(clock, b)
    /\ call' = Call("add_bit")
    /\ UNCHANGED <<TOKENS, memo, appVars>>

ClockEmit(maxwin, observe, when_full) ==
    /\ clock.window_counter < maxwin
    /\ when_full => full(clock)
    /\ \E u \in UniformDraws(clock.drift_range), r \in RandomDraws :
           LET e == emit(clock, u, r)
           IN  /\ clock' = e.clock
               /\ call' = EmitCall(clock, e)
               /\ memo' \in IF observe /\ memo = None
                            THEN {memo, Observation(clock, e)}
                            ELSE {memo}
    /\ UNCHANGED <<TOKENS, appVars>>

ClockResetParams(CB, DR, RP) ==
    /\ \E cb \in CB, dr \in DR, rp \in RP :
           clock' = reset_params(clock, cb, dr, rp)
    /\ call' = Call("reset_params")
    /\ UNCHANGED <<TOKENS, memo, appVars>>

----------------------------------------------------------------------------
(* SpecClock: one DriftClock driven through its methods in any order, on   *)
(* full, partially filled and empty buffers, with one earlier emission     *)
(* remembered.                                                             *)

InitClock ==
    /\ TOKENS = ShuffledTable
    /\ NewClock(CycleChoices, {1}, ResetChoices)
    /\ AppInit

NextClock ==
    \/ ClockAddBit(MaxBuf)
    \/ ClockEmit(MaxWindows, TRUE, FALSE)
    \/ ClockResetParams(CycleChoices, {1}, ResetChoices)

SpecClock == InitClock /\ [][NextClock]_vars

----------------------------------------------------------------------------
(* SpecDrift: the drift accumulator over many emissions, with every        *)
(* drift_range the settings surface offers and one-bit windows, the clock  *)
(* driven as a session drives it: emit() is called on a full buffer only.  *)

InitDrift ==
    /\ TOKENS = ShuffledTable
    /\ NewClock({1}, RangeChoices, ResetChoices)
    /\ AppInit

NextDrift ==
    \/ ClockAddBit(1)
    \/ ClockEmit(MaxEmits, FALSE, TRUE)
    \/ ClockResetParams({1}, RangeChoices, ResetChoices)

SpecDrift == InitDrift /\ [][NextDrift]_vars

----------------------------------------------------------------------------
(* SpecReset: reset events with bits queued beyond the window.             *)

InitReset ==
    /\ TOKENS = ShuffledTable
    /\ NewClock(CycleChoices, {1}, ResetChoices)
    /\ AppInit

NextReset ==
    \/ ClockAddBit(MaxLeftover + 1)
    \/ ClockEmit(MaxResets, FALSE, FALSE)
    \/ ClockResetParams(CycleChoices, {1}, ResetChoices)

SpecReset == InitReset /\ [][NextReset]_vars

----------------------------------------------------------------------------
(* SpecWindow8: the 8-bit windows of the scenario cycle_bits = 8.          *)

ScenarioBits == <<1, 0, 1, 1, 0, 0, 1, 0>>
ScenarioCycleBits == Len(ScenarioBits)

InitWindow8 ==
    /\ TOKENS \in StartTables
    /\ NewClock({ScenarioCycleBits}, {TOKEN_DRIFT_RANGE_DEFAULT},
                {RESET_PROBABILITY_DEFAULT})
    /\ AppInit

NextWindow8 ==
    \/ ClockAddBit(ScenarioCycleBits)
    \/ ClockEmit(MaxScenarioEmits, FALSE, FALSE)

SpecWindow8 == InitWindow8 /\ [][NextWindow8]_vars

----------------------------------------------------------------------------
(* SpecTable: the module-level TOKENS = make_token_table(), with and       *)
(* without the start-up shuffle, for the shuffle outcomes SwapSeqs.        *)

InitTable ==
    /\ TOKENS = <<>>
    /\ clock = None
    /\ call = Call("import")
    /\ memo = None
    /\ AppInit

LoadModule ==
    /\ TOKENS = <<>>
    /\ \E randomize \in BOOLEAN, swaps \in SwapSeqs :
           /\ TOKENS' = make_token_table(randomize, swaps)
           /\ call' = [Call("make_token_table") EXCEPT !.shuffled = randomize]
    /\ UNCHANGED <<clock, memo, appVars>>

NextTable == LoadModule

SpecTable == InitTable /\ [][NextTable]_vars

----------------------------------------------------------------------------
(* MiniUI: the handlers of the main window, clock.py 526-748.              *)

ACTIVE_STATES == {"online", "idle", "dnd", "mobile"}
mode_names == <<"Mouse", "Keyboard", "Auto">>

\* PresenceWatcher.__init__, clock.py 322-329
PresenceWatcher(poll_interval) ==
    [ state |-> "offline", last_seen_ts |-> 0, poll_interval |-> poll_interval,
      running |-> TRUE ]

\* A thread at watcher.start(): run() is about to test its loop condition;
\* t0 and backoff are run()'s locals (backoff in ms).  res, seen_ts and
\* seen_st observe the thread: the outcome of its last completed poll, and
\* the start time and status of the last poll that yielded the target.
Thread ==
    [ pc |-> "top", t0 |-> 0, backoff |-> 0,
      res |-> "None", seen_ts |-> 0, seen_st |-> "None" ]

\* The action periods the dialog's field (0.05 .. 10.00 s, two decimals) can
\* hold whose product with 1000 in floating point lies just below the whole
\* number of milliseconds, e.g. 2.01 * 1000 = 2009.9999999999998; computed
\* with Python's float arithmetic.  action_period is kept in ms here.
TruncatedPeriods == {2010, 2030, 4020, 4060, 8030, 8040, 8110, 8120, 8190}

\* int(max(1, self.state["action_period"]*1000)), in ms: int() truncates.
TimerPeriod(action_period) ==
    IF action_period \in TruncatedPeriods THEN Max(1, action_period - 1)
    ELSE Max(1, action_period)

\* keyPressEvent: F1/F2/F3 switch modes.  The modal dialog takes the keys
\* while it is open.
KeyPress ==
    /\ dlg = None
    /\ \E k \in 0 .. 2 :
           /\ mode_index' = k
           /\ ui' = Event("mode")
    /\ UNCHANGED <<TOKENS, clockVars, state, dlg, run_flag, paused, driver,
                   watcher, timer_action, timer_cycle, cur_step, last_bits,
                   now, last_emit_ts, thread, orphans, surfaced>>

\* The values the user moves the dominance slider or spin boxes to.
DomChoices == {0, 40, 60, 100}

\* _mouse_dom_changed(val), clock.py 543-551
mouse_dom_changed(st, val) ==
    LET v == Max(0, Min(100, val))
    IN  [st EXCEPT !.mouse_dom = v, !.key_dom = 100 - v]

SliderMoved ==
    /\ dlg = None
    /\ \E val \in DomChoices :
           /\ val # state.mouse_dom
           /\ state' = mouse_dom_changed(state, val)
    /\ ui' = Event("slider")
    /\ UNCHANGED <<TOKENS, clockVars, dlg, run_flag, paused, mode_index, driver,
                   watcher, timer_action, timer_cycle, cur_step, last_bits,
                   now, last_emit_ts, thread, orphans, surfaced>>

\* on_settings_clicked up to dlg.exec(): the dialog works on dict(self.state).
\* The timers keep firing inside exec(); the main window takes no input.
SettingsOpen ==
    /\ dlg = None
    /\ dlg' = [state |-> state]
    /\ ui' = Event("settings")
    /\ UNCHANGED <<TOKENS, clockVars, state, run_flag, paused, mode_index, driver,
                   watcher, timer_action, timer_cycle, cur_step, last_bits,
                   now, last_emit_ts, thread, orphans, surfaced>>

\* Mutant of apply: the key dominance is read from its own field.
apply_reads_key_field(dstate, sp) ==
    [dstate EXCEPT !.cycle_bits    = sp.spCycle,
                   !.action_period = sp.spPeriod,
                   !.drift_range   = sp.spDrift,
                   !.reset_prob    = sp.spReset,
                   !.presence_poll = sp.spPoll,
                   !.mouse_step    = sp.spStep,
                   !.mouse_accel   = sp.spAccel,
                   !.mouse_max     = sp.spMax,
                   !.key_delay     = sp.spKeyDelay,
                   !.adminless     = sp.cbAdminless,
                   !.mouse_dom     = sp.spMouseDom,
                   !.key_dom       = sp.spKeyDom]

\* SettingsDialog.apply, clock.py 411-430: sp is the record of the widgets'
\* values when Apply is clicked.
apply(dstate, sp) ==
    LET m == sp.spMouseDom
        k == 100 - m
    IN  [dstate EXCEPT !.cycle_bits    = sp.spCycle,
                       !.action_period = sp.spPeriod,
                       !.drift_range   = sp.spDrift,
                       !.reset_prob    = sp.spReset,
                       !.presence_poll = sp.spPoll,
                       !.mouse_step    = sp.spStep,
                       !.mouse_accel   = sp.spAccel,
                       !.mouse_max     = sp.spMax,
                       !.key_delay     = sp.spKeyDelay,
                       !.adminless     = sp.cbAdminless,
                       !.mouse_dom     = m,
                       !.key_dom       = k]

\* The widgets' values at Apply: each field holds the value the dialog was
\* opened with or one the user entered since.
DlgCycle == {1, CYCLE_BITS_DEFAULT}
DlgDrift == {1, TOKEN_DRIFT_RANGE_DEFAULT}
DlgReset == {RESET_PROBABILITY_DEFAULT}
DlgPeriod == {ACTION_PERIOD_SEC_DEFAULT}
KeyDomEntered == {0, 40}

Widgets(d) ==
    { [ spCycle |-> cb, spPeriod |-> ap, spDrift |-> dr, spReset |-> rp,
        spPoll |-> d.presence_poll, spStep |-> d.mouse_step,
        spAccel |-> d.mouse_accel, spMax |-> d.mouse_max,
        spKeyDelay |-> d.key_delay, cbAdminless |-> d.adminless,
        spMouseDom |-> m, spKeyDom |-> k ] :
      cb \in DlgCycle, ap \in DlgPeriod, dr \in DlgDrift, rp \in DlgReset,
      m \in DomChoices, k \in KeyDomEntered }

\* Apply clicked: apply(), accept(), and the rest of on_settings_clicked,
\* clock.py 556-568.  widgets are the values the dialog's widgets may hold.
SettingsApplyOf(widgets) ==
    /\ dlg # None
    /\ \E sp \in widgets :
           LET st == apply(dlg.state, sp)
           IN  /\ state' = st
               /\ clock' = IF clock # None
                           THEN reset_params(clock, st.cycle_bits, st.drift_range,
                                             st.reset_prob)
                           ELSE clock
               /\ watcher' = IF watcher # None
                             THEN [watcher EXCEPT !.poll_interval = st.presence_poll]
                             ELSE watcher
               /\ timer_action' = IF timer_action > 0
                                  THEN TimerPeriod(st.action_period)
                                  ELSE timer_action
               /\ ui' = [Event("apply") EXCEPT !.key_entered = sp.spKeyDom]
    /\ call' = IF clock # None THEN Call("reset_params") ELSE call
    /\ dlg' = None
    /\ UNCHANGED <<TOKENS, memo, run_flag, paused, mode_index, driver,
                   timer_cycle, cur_step, last_bits,
                   now, last_emit_ts, thread, orphans, surfaced>>

SettingsApply == SettingsApplyOf(Widgets(dlg.state))

\* Close clicked: exec() returns 0 and on_settings_clicked does nothing more.
SettingsClose ==
    /\ dlg # None
    /\ dlg' = None
    /\ ui' = Event("close")
    /\ UNCHANGED <<TOKENS, clockVars, state, run_flag, paused, mode_index, driver,
                   watcher, timer_action, timer_cycle, cur_step, last_bits,
                   now, last_emit_ts, thread, orphans, surfaced>>

\* _stop, clock.py 602-612
StopSession ==
    /\ run_flag' = FALSE
    /\ paused' = FALSE
    /\ watcher' = IF watcher # None THEN [watcher EXCEPT !.running = FALSE]
                  ELSE watcher
    /\ timer_cycle' = 0
    /\ timer_action' = 0

\* on_start_clicked, clock.py 571-600: user_ok is whether the user field
\* holds a name, edge_ok whether open_discord() returns a driver.
\* The identity of the thread object a replaced watcher leaves behind: the
\* least of 0..MaxOrphans no live replaced thread has, MaxOrphans when all
\* are taken.
NewOrphanId ==
    LET free == (0..MaxOrphans) \ {o.id : o \in orphans}
    IN  IF free = {} THEN MaxOrphans
        ELSE CHOOSE i \in free : \A j \in free : i <= j

\* Mutant of StartClicked: a later session keeps the DriftClock of the one
\* before it, with the current settings.
StartClicked_reuses_clock ==
    /\ dlg = None
    /\ \E user_ok \in BOOLEAN, edge_ok \in BOOLEAN :
           IF run_flag THEN
               /\ StopSession
               /\ ui' = Event("stop")
               /\ UNCHANGED <<clockVars, driver, thread, orphans>>
           ELSE IF ~user_ok THEN
               /\ ui' = Event("no_user")
               /\ UNCHANGED <<clockVars, driver, watcher, run_flag, paused,
                              timer_action, timer_cycle, thread, orphans>>
           ELSE IF ~driver /\ ~edge_ok THEN
               /\ ui' = Event("edge_error")
               /\ UNCHANGED <<clockVars, driver, watcher, run_flag, paused,
                              timer_action, timer_cycle, thread, orphans>>
           ELSE
               /\ driver' = TRUE
               /\ watcher' = PresenceWatcher(state.presence_poll)
               /\ thread' = Thread
               /\ orphans' = IF thread # None /\ thread.pc # "done"
                             THEN orphans \cup {[id |-> NewOrphanId,
                                                  w |-> watcher, th |-> thread]}
                             ELSE orphans
               /\ clock' = IF clock # None
                           THEN reset_params(clock, state.cycle_bits,
                                             state.drift_range,
                                             state.reset_prob)
                           ELSE DriftClock(state.cycle_bits, state.drift_range,
                                           state.reset_prob)
               /\ call' = Call("new")
               /\ run_flag' = TRUE
               /\ paused' = FALSE
               /\ timer_cycle' = 1000
               /\ timer_action' = TimerPeriod(state.action_period)
               /\ ui' = Event("start")
               /\ UNCHANGED memo
    /\ UNCHANGED <<TOKENS, state, dlg, mode_index, cur_step, last_bits,
                   now, last_emit_ts, surfaced>>

StartClicked ==
    /\ dlg = None
    /\ \E user_ok \in BOOLEAN, edge_ok \in BOOLEAN :
           IF run_flag THEN
               /\ StopSession
               /\ ui' = Event("stop")
               /\ UNCHANGED <<clockVars, driver, thread, orphans>>
           ELSE IF ~user_ok THEN
               /\ ui' = Event("no_user")
               /\ UNCHANGED <<clockVars, driver, watcher, run_flag, paused,
                              timer_action, timer_cycle, thread, orphans>>
           ELSE IF ~driver /\ ~edge_ok THEN
               /\ ui' = Event("edge_error")
               /\ UNCHANGED <<clockVars, driver, watcher, run_flag, paused,
                              timer_action, timer_cycle, thread, orphans>>
           ELSE
               /\ driver' = TRUE
               /\ watcher' = PresenceWatcher(state.presence_poll)
               /\ thread' = Thread
               /\ orphans' = IF thread # None /\ thread.pc # "done"
                             THEN orphans \cup {[id |-> NewOrphanId,
                                                  w |-> watcher, th |-> thread]}
                             ELSE orphans
               /\ clock' = DriftClock(state.cycle_bits, state.drift_range,
                                      state.reset_prob)
               /\ call' = Call("new")
               /\ run_flag' = TRUE
               /\ paused' = FALSE
               /\ timer_cycle' = 1000
               /\ timer_action' = TimerPeriod(state.action_period)
               /\ ui' = Event("start")
               /\ UNCHANGED memo
    /\ UNCHANGED <<TOKENS, state, dlg, mode_index, cur_step, last_bits,
                   now, last_emit_ts, surfaced>>

\* Mutant of PauseClicked: the click toggles _paused without a session.
PauseClicked_ignores_run_flag ==
    /\ dlg = None
    /\ paused' = ~paused
    /\ ui' = Event("pause")
    /\ UNCHANGED <<TOKENS, clockVars, state, dlg, run_flag, mode_index, driver,
                   watcher, timer_action, timer_cycle, cur_step, last_bits,
                   now, last_emit_ts, thread, orphans, surfaced>>

\* on_pause_clicked, clock.py 614-618
PauseClicked ==
    /\ dlg = None
    /\ IF ~run_flag THEN UNCHANGED <<paused, ui>>
       ELSE /\ paused' = ~paused
            /\ ui' = Event("pause")
    /\ UNCHANGED <<TOKENS, clockVars, state, dlg, run_flag, mode_index, driver,
                   watcher, timer_action, timer_cycle, cur_step, last_bits,
                   now, last_emit_ts, thread, orphans, surfaced>>

\* Mutant of action_domain: Auto mode always draws, and compares with <=.
action_domain_always_draws(mode, m_dom, k_dom, choice) ==
    IF mode = "Mouse" THEN "Mouse"
    ELSE IF mode = "Keyboard" THEN "Keyboard"
    ELSE IF choice <= m_dom THEN "Mouse" ELSE "Keyboard"

\* The domain choice of _on_action_tick, clock.py 666-679; choice is the
\* value of random.uniform(0, m_dom + k_dom), drawn in the last branch only.
action_domain(mode, m_dom, k_dom, choice) ==
    IF mode = "Mouse" THEN "Mouse"
    ELSE IF mode = "Keyboard" THEN "Keyboard"
    ELSE IF m_dom = 0 /\ k_dom = 0 THEN "Mouse"
    ELSE IF m_dom = 0 THEN "Keyboard"
    ELSE IF k_dom = 0 THEN "Mouse"
    ELSE IF choice < m_dom THEN "Mouse" ELSE "Keyboard"

\* The values random.uniform(0, total) is drawn from: the ends and the
\* neighbourhood of the threshold m_dom.
DomDraws(m_dom, total) ==
    {x \in {0, m_dom - 1, m_dom, m_dom + 1, total} : 0 <= x /\ x <= total}

\* _choose_mouse_action, clock.py 692-701: the class of the chosen token; r is
\* random.random() in thousandths.
choose_mouse_action(r) ==
    IF r < 600 THEN "nudge"
    ELSE IF r < 850 THEN "click"
    ELSE IF r < 950 THEN "scroll"
    ELSE "drag"

\* _choose_key_action, clock.py 703-706
choose_key_action(token, r) ==
    IF r < 850 THEN "named"
    ELSE IF token \in Range(BaseSymbols) THEN "literal" ELSE "space"

MouseDraws == {0, 599, 600, 849, 850, 949, 950, 999}
KeyDraws == {0, 849, 850, 999}

\* Mutant of perform_mouse_step: the ramp is not clamped to mouse_max.
perform_mouse_step_unclamped(st, step, kind) ==
    IF kind = "nudge"
    THEN Max(st.mouse_step, step + st.mouse_accel)
    ELSE st.mouse_step

\* The step size _perform_mouse leaves, clock.py 709-716
perform_mouse_step(st, step, kind) ==
    IF kind = "nudge"
    THEN Min(st.mouse_max, Max(st.mouse_step, step + st.mouse_accel))
    ELSE st.mouse_step

\* Mutant of ActionTickObs: an action tick that acts consumes the history.
ActionTickObs_consumes_history(observe) ==
    /\ timer_action > 0
    /\ IF ~(run_flag /\ clock # None /\ watcher # None) \/ paused
       THEN UNCHANGED <<cur_step, ui, last_bits>>
       ELSE LET seed_bits == IF Len(last_bits) < 8
                             THEN IF watcher.state \in ACTIVE_STATES
                                  THEN <<1, 1, 1, 1, 1, 1, 1, 1>>
                                  ELSE <<0, 0, 0, 0, 0, 0, 0, 0>>
                             ELSE last_bits
                idx   == sha_index(seed_bits \o SALT)
                token == token_at(idx)
                mode  == mode_names[mode_index + 1]
                total == state.mouse_dom + state.key_dom
                obs == IF observe
                       THEN [Event("action") EXCEPT
                                !.prev = IF ui.ev = "action" THEN ui.kind
                                         ELSE "None",
                                !.step0 = cur_step]
                       ELSE Event("action")
                domains == {action_domain(mode, state.mouse_dom, state.key_dom, choice) :
                               choice \in DomDraws(state.mouse_dom, total)}
            IN  /\ last_bits' = <<>>
                /\ \E domain \in domains, ok \in BOOLEAN :
                    IF domain = "Mouse"
                    THEN \E kind \in {choose_mouse_action(r) : r \in MouseDraws} :
                             /\ cur_step' = perform_mouse_step(state, cur_step, kind)
                             /\ ui' = IF ok
                                      THEN [obs EXCEPT
                                               !.token = token, !.domain = domain,
                                               !.kind = kind, !.result = "ok",
                                               !.seed = seed_bits \o SALT]
                                      ELSE [obs EXCEPT
                                               !.domain = domain, !.kind = kind,
                                               !.result = "raise",
                                               !.seed = seed_bits \o SALT]
                    ELSE \E kind \in {choose_key_action(token, r) : r \in KeyDraws} :
                             /\ cur_step' = cur_step
                             /\ ui' = [obs EXCEPT
                                          !.token = token, !.domain = domain,
                                          !.kind = kind,
                                          !.seed = seed_bits \o SALT,
                                          !.result = IF ok THEN "key" ELSE "key-skip"]
    /\ UNCHANGED <<TOKENS, clockVars, state, dlg, run_flag, paused, mode_index,
                   driver, watcher, timer_action, timer_cycle,
                   now, last_emit_ts, thread, orphans, surfaced>>

\* _on_action_tick, clock.py 652-689.  With observe the tick records the step
\* size and the action class it found.  choice and r are the random draws; the
\* pyautogui call of a pointer action returns or raises (ok); _perform_mouse
\* catches nothing, so a raise leaves the handler before anything is
\* surfaced.  key_press catches every exception and returns a key-skip tag.
ActionTickObs(observe) ==
    /\ timer_action > 0
    /\ IF ~(run_flag /\ clock # None /\ watcher # None) \/ paused
       THEN UNCHANGED <<cur_step, ui>>
       ELSE LET seed_bits == IF Len(last_bits) < 8
                             THEN IF watcher.state \in ACTIVE_STATES
                                  THEN <<1, 1, 1, 1, 1, 1, 1, 1>>
                                  ELSE <<0, 0, 0, 0, 0, 0, 0, 0>>
                             ELSE last_bits
                idx   == sha_index(seed_bits \o SALT)
                token == token_at(idx)
                mode  == mode_names[mode_index + 1]
                total == state.mouse_dom + state.key_dom
                obs == IF observe
                       THEN [Event("action") EXCEPT
                                !.prev = IF ui.ev = "action" THEN ui.kind
                                         ELSE "None",
                                !.step0 = cur_step]
                       ELSE Event("action")
                domains == {action_domain(mode, state.mouse_dom, state.key_dom, choice) :
                               choice \in DomDraws(state.mouse_dom, total)}
            IN  \E domain \in domains, ok \in BOOLEAN :
                    IF domain = "Mouse"
                    THEN \E kind \in {choose_mouse_action(r) : r \in MouseDraws} :
                             /\ cur_step' = perform_mouse_step(state, cur_step, kind)
                             /\ ui' = IF ok
                                      THEN [obs EXCEPT
                                               !.token = token, !.domain = domain,
                                               !.kind = kind, !.result = "ok",
                                               !.seed = seed_bits \o SALT]
                                      ELSE [obs EXCEPT
                                               !.domain = domain, !.kind = kind,
                                               !.result = "raise",
                                               !.seed = seed_bits \o SALT]
                    ELSE \E kind \in {choose_key_action(token, r) : r \in KeyDraws} :
                             /\ cur_step' = cur_step
                             /\ ui' = [obs EXCEPT
                                          !.token = token, !.domain = domain,
                                          !.kind = kind,
                                          !.seed = seed_bits \o SALT,
                                          !.result = IF ok THEN "key" ELSE "key-skip"]
    /\ UNCHANGED <<TOKENS, clockVars, state, dlg, run_flag, paused, mode_index,
                   driver, watcher, timer_action, timer_cycle, last_bits,
                   now, last_emit_ts, thread, orphans, surfaced>>

ActionTick == ActionTickObs(FALSE)

----------------------------------------------------------------------------
(* _on_cycle_tick, clock.py 621-649.                                        *)

\* Mutant of on_cycle_tick: the keepalive test is strict.
on_cycle_tick_keepalive_late(c, lb, let, ps, wstate, t, u, r) ==
    LET bit  == IF wstate \in ACTIVE_STATES THEN 1 ELSE 0
        c1   == IF ~ps THEN add_bit(c, bit) ELSE c
        lb1  == Append(lb, bit)
        lb2  == IF Len(lb1) > HistoryCap THEN Tail(lb1) ELSE lb1
        emitted == ~ps /\ full(c1)
        e    == emit(c1, u, r)
        keep == ~emitted /\ (t - let) > keepalive_seconds
        seed == (IF Len(lb2) >= 8 THEN lb2 ELSE Repeat(0, 8)) \o SALT
    IN  [ clock        |-> IF emitted THEN e.clock ELSE c1,
          last_bits    |-> lb2,
          last_emit_ts |-> IF emitted \/ keep THEN t ELSE let,
          presence     |-> wstate,
          tag          |-> IF emitted THEN "cycle"
                           ELSE IF keep THEN "keepalive" ELSE "None",
          token        |-> IF emitted THEN e.token
                           ELSE IF keep THEN token_at(sha_index(seed))
                           ELSE "None",
          call         |-> IF emitted THEN EmitCall(c1, e)
                           ELSE IF ~ps THEN Call("add_bit") ELSE Call("none") ]

\* Mutant of on_cycle_tick: a keepalive empties the clock's bit buffer.
on_cycle_tick_keepalive_clears(c, lb, let, ps, wstate, t, u, r) ==
    LET bit  == IF wstate \in ACTIVE_STATES THEN 1 ELSE 0
        c1   == IF ~ps THEN add_bit(c, bit) ELSE c
        lb1  == Append(lb, bit)
        lb2  == IF Len(lb1) > HistoryCap THEN Tail(lb1) ELSE lb1
        emitted == ~ps /\ full(c1)
        e    == emit(c1, u, r)
        keep == ~emitted /\ (t - let) >= keepalive_seconds
        seed == (IF Len(lb2) >= 8 THEN lb2 ELSE Repeat(0, 8)) \o SALT
    IN  [ clock        |-> IF emitted THEN e.clock
                           ELSE IF keep THEN [c1 EXCEPT !.bits = <<>>]
                           ELSE c1,
          last_bits    |-> lb2,
          last_emit_ts |-> IF emitted \/ keep THEN t ELSE let,
          presence     |-> wstate,
          tag          |-> IF emitted THEN "cycle"
                           ELSE IF keep THEN "keepalive" ELSE "None",
          token        |-> IF emitted THEN e.token
                           ELSE IF keep THEN token_at(sha_index(seed))
                           ELSE "None",
          call         |-> IF emitted THEN EmitCall(c1, e)
                           ELSE IF ~ps THEN Call("add_bit") ELSE Call("none") ]

\* Mutant of on_cycle_tick: emit() is called on any non-empty buffer.
on_cycle_tick_emits_partial(c, lb, let, ps, wstate, t, u, r) ==
    LET bit  == IF wstate \in ACTIVE_STATES THEN 1 ELSE 0
        c1   == IF ~ps THEN add_bit(c, bit) ELSE c
        lb1  == Append(lb, bit)
        lb2  == IF Len(lb1) > HistoryCap THEN Tail(lb1) ELSE lb1
        emitted == ~ps /\ Len(c1.bits) >= 1
        e    == emit(c1, u, r)
        keep == ~emitted /\ (t - let) >= keepalive_seconds
        seed == (IF Len(lb2) >= 8 THEN lb2 ELSE Repeat(0, 8)) \o SALT
    IN  [ clock        |-> IF emitted THEN e.clock ELSE c1,
          last_bits    |-> lb2,
          last_emit_ts |-> IF emitted \/ keep THEN t ELSE let,
          presence     |-> wstate,
          tag          |-> IF emitted THEN "cycle"
                           ELSE IF keep THEN "keepalive" ELSE "None",
          token        |-> IF emitted THEN e.token
                           ELSE IF keep THEN token_at(sha_index(seed))
                           ELSE "None",
          call         |-> IF emitted THEN EmitCall(c1, e)
                           ELSE IF ~ps THEN Call("add_bit") ELSE Call("none") ]

\* Mutant of on_cycle_tick: the tick does not look at _paused.
on_cycle_tick_ignores_pause(c, lb, let, ps, wstate, t, u, r) ==
    LET bit  == IF wstate \in ACTIVE_STATES THEN 1 ELSE 0
        c1   == add_bit(c, bit)
        lb1  == Append(lb, bit)
        lb2  == IF Len(lb1) > HistoryCap THEN Tail(lb1) ELSE lb1
        emitted == full(c1)
        e    == emit(c1, u, r)
        keep == ~emitted /\ (t - let) >= keepalive_seconds
        seed == (IF Len(lb2) >= 8 THEN lb2 ELSE Repeat(0, 8)) \o SALT
    IN  [ clock        |-> IF emitted THEN e.clock ELSE c1,
          last_bits    |-> lb2,
          last_emit_ts |-> IF emitted \/ keep THEN t ELSE let,
          presence     |-> wstate,
          tag          |-> IF emitted THEN "cycle"
                           ELSE IF keep THEN "keepalive" ELSE "None",
          token        |-> IF emitted THEN e.token
                           ELSE IF keep THEN token_at(sha_index(seed))
                           ELSE "None",
          call         |-> IF emitted THEN EmitCall(c1, e)
                           ELSE IF ~ps THEN Call("add_bit") ELSE Call("none") ]

\* The body of _on_cycle_tick past its guard: c, lb, let and ps are the clock,
\* last_bits, last_emit_ts and _paused, wstate is watcher.state, t is
\* time.time(), u and r are the random draws of emit().
on_cycle_tick(c, lb, let, ps, wstate, t, u, r) ==
    LET bit  == IF wstate \in ACTIVE_STATES THEN 1 ELSE 0
        c1   == IF ~ps THEN add_bit(c, bit) ELSE c
        lb1  == Append(lb, bit)
        lb2  == IF Len(lb1) > HistoryCap THEN Tail(lb1) ELSE lb1
        emitted == ~ps /\ full(c1)
        e    == emit(c1, u, r)
        keep == ~emitted /\ (t - let) >= keepalive_seconds
        seed == (IF Len(lb2) >= 8 THEN lb2 ELSE Repeat(0, 8)) \o SALT
    IN  [ clock        |-> IF emitted THEN e.clock ELSE c1,
          last_bits    |-> lb2,
          last_emit_ts |-> IF emitted \/ keep THEN t ELSE let,
          presence     |-> wstate,
          tag          |-> IF emitted THEN "cycle"
                           ELSE IF keep THEN "keepalive" ELSE "None",
          token        |-> IF emitted THEN e.token
                           ELSE IF keep THEN token_at(sha_index(seed))
                           ELSE "None",
          call         |-> IF emitted THEN EmitCall(c1, e)
                           ELSE IF ~ps THEN Call("add_bit") ELSE Call("none") ]

\* timer_cycle fires.  gaps are the times since the event before it that the
\* step may take; maxtime and maxwin bound time.time() and window_counter.
CycleTick(gaps, maxtime, maxwin) ==
    /\ timer_cycle > 0
    /\ \E g \in gaps :
           /\ now + g <= StartTime + maxtime
           /\ now' = now + g
    /\ IF ~(run_flag /\ clock # None /\ watcher # None)
       THEN UNCHANGED <<clock, call, last_bits, last_emit_ts, ui, surfaced>>
       ELSE \E res \in {on_cycle_tick(clock, last_bits, last_emit_ts, paused,
                                      watcher.state, now', u, r) :
                            u \in UniformDraws(clock.drift_range),
                            r \in RandomDraws} :
                /\ res.clock.window_counter <= maxwin
                /\ clock' = res.clock
                /\ call' = res.call
                /\ last_bits' = res.last_bits
                /\ last_emit_ts' = res.last_emit_ts
                /\ ui' = [Event("tick") EXCEPT !.token = res.token,
                                               !.kind = res.tag,
                                               !.presence = res.presence,
                                               !.t = now']
                /\ surfaced' =
                       [ cycle  |-> IF res.tag = "cycle" THEN now'
                                    ELSE surfaced.cycle,
                         any    |-> IF res.tag # "None" THEN now'
                                    ELSE surfaced.any,
                         before |-> surfaced.any ]
    /\ UNCHANGED <<TOKENS, memo, state, dlg, run_flag, paused, mode_index,
                   driver, watcher, timer_action, timer_cycle, cur_step,
                   thread, orphans>>

\* The time a timer's firing comes after the event before it: the timer's
\* period, or a stall of the event loop (a blocking actuator call, a
\* suspended machine) as long as the keepalive interval.
TimerGaps == {timer_cycle, keepalive_seconds}

----------------------------------------------------------------------------
(* PresenceWatcher.run, clock.py 337-362, one step per blocking point: the  *)
(* loop test with t0 = time.time(), the sampler call with the update of     *)
(* state, and the sleep.                                                    *)

\* What get_visible_members and the lookup of the target yield: "empty" is
\* an empty result or an exception, "absent" a non-empty result without the
\* target (or with an empty status for it), otherwise the target's status.
Samples == {"empty", "absent", "online", "offline"}

\* How long the sampler call takes, in ms: at once, or the two seconds of its
\* WebDriverWait.
SamplerDelays == {0, 2000}

\* Mutant of run_top: the loop does not test the stop flag.
run_top_ignores_stop(w, th, t) ==
    [th EXCEPT !.pc = "poll", !.t0 = t]

\* while self._running: t0 = time.time()
run_top(w, th, t) ==
    IF w.running THEN [th EXCEPT !.pc = "poll", !.t0 = t]
    ELSE [th EXCEPT !.pc = "done"]

\* Mutant of grace_elapsed: the comparison is strict.
grace_elapsed_strict(t0, last_seen_ts) ==
    (t0 - last_seen_ts) > OFFLINE_GRACE_SECONDS

\* (t0 - self.last_seen_ts) >= OFFLINE_GRACE_SECONDS
grace_elapsed(t0, last_seen_ts) ==
    (t0 - last_seen_ts) >= OFFLINE_GRACE_SECONDS

\* Lines 341-359: the sampler has returned members.
run_poll(w, th, members) ==
    IF members \notin {"empty", "absent"}
    THEN [ w  |-> [w EXCEPT !.state = members, !.last_seen_ts = th.t0],
           th |-> [th EXCEPT !.pc = "sleep", !.backoff = 0, !.res = members,
                             !.seen_ts = th.t0, !.seen_st = members] ]
    ELSE [ w  |-> IF grace_elapsed(th.t0, w.last_seen_ts)
                  THEN [w EXCEPT !.state = "offline"]
                  ELSE w,
           th |-> [th EXCEPT !.pc = "sleep", !.res = members,
                             !.backoff = IF members = "absent" THEN 0
                                         ELSE Min(1000, th.backoff + 100)] ]

\* time.sleep(max(0.05, self.poll_interval + backoff)), in ms
run_sleep(w, th) == Max(50, w.poll_interval + th.backoff)

\* One step of a thread (w, th) at time t: the pairs <<thread after the
\* step, time the step takes>>.
run_step(w, th, t) ==
    CASE th.pc = "top"   -> {[w |-> w, th |-> run_top(w, th, t), d |-> 0]}
      [] th.pc = "poll"  -> {[w |-> r.w, th |-> r.th, d |-> d] :
                                r \in {run_poll(w, th, m) : m \in Samples},
                                d \in SamplerDelays}
      [] th.pc = "sleep" -> {[w |-> w, th |-> [th EXCEPT !.pc = "top"],
                              d |-> run_sleep(w, th)]}
      [] OTHER           -> {}

\* The thread of MiniUI.watcher takes a step.
WatcherStep(maxtime) ==
    /\ thread # None
    /\ \E s \in run_step(watcher, thread, now) :
           /\ s.w.running => now + s.d <= StartTime + maxtime
           /\ watcher' = s.w
           /\ thread' = s.th
           /\ now' = now + s.d
    /\ UNCHANGED <<TOKENS, clockVars, state, dlg, run_flag, paused, mode_index,
                   driver, timer_action, timer_cycle, cur_step, last_bits, ui,
                   last_emit_ts, orphans, surfaced>>

\* The thread id of a watcher that was replaced takes a step; a thread that
\* has returned from run() is gone.
OrphanStepOf(id, maxtime) ==
    /\ \E o \in {p \in orphans : p.id = id} :
           \E s \in run_step(o.w, o.th, now) :
               /\ s.w.running => now + s.d <= StartTime + maxtime
               /\ orphans' = (orphans \ {o}) \cup
                                 (IF s.th.pc = "done" THEN {}
                                  ELSE {[id |-> id, w |-> s.w, th |-> s.th]})
               /\ now' = now + s.d
    /\ UNCHANGED <<TOKENS, clockVars, state, dlg, run_flag, paused, mode_index,
                   driver, watcher, timer_action, timer_cycle, cur_step,
                   last_bits, ui, last_emit_ts, thread, surfaced>>

\* The thread of some replaced watcher takes a step.
OrphanStep(maxtime) == \E id \in 0..MaxOrphans : OrphanStepOf(id, maxtime)

\* timer_cycle fires while the watcher's thread is inside its sampler call,
\* and the call returns between the tick's two reads of watcher.state: line
\* 626 reads it for the bit, the thread writes state (lines 350-358), line 627
\* reads it again for the presence label.
CycleTickRace(gaps, maxtime, maxwin) ==
    /\ timer_cycle > 0
    /\ run_flag /\ clock # None /\ watcher # None
    /\ thread # None /\ thread.pc = "poll"
    /\ \E g \in gaps :
           /\ now + g <= StartTime + maxtime
           /\ now' = now + g
    /\ \E m \in Samples :
           LET s == run_poll(watcher, thread, m)
           IN  /\ watcher' = s.w
               /\ thread' = s.th
               /\ \E res \in {on_cycle_tick(clock, last_bits, last_emit_ts,
                                              paused, watcher.state, now', u, r) :
                                    u \in UniformDraws(clock.drift_range),
                                    r \in RandomDraws} :
                      /\ res.clock.window_counter <= maxwin
                      /\ clock' = res.clock
                      /\ call' = res.call
                      /\ last_bits' = res.last_bits
                      /\ last_emit_ts' = res.last_emit_ts
                      /\ ui' = [Event("tick") EXCEPT !.token = res.token,
                                                     !.kind = res.tag,
                                                     !.presence = s.w.state,
                                                     !.t = now']
                      /\ surfaced' =
                             [ cycle  |-> IF res.tag = "cycle" THEN now'
                                          ELSE surfaced.cycle,
                               any    |-> IF res.tag # "None" THEN now'
                                          ELSE surfaced.any,
                               before |-> surfaced.any ]
    /\ UNCHANGED <<TOKENS, memo, state, dlg, run_flag, paused, mode_index,
                   driver, timer_action, timer_cycle, cur_step, orphans>>

----------------------------------------------------------------------------
(* SpecWatcher: sessions started and stopped while the watchers' threads    *)
(* poll, up to MaxTime ms after construction.                               *)

Init ==
    /\ TOKENS = ShuffledTable
    /\ clock = None
    /\ call = Call("import")
    /\ memo = None
    /\ AppInit

NextWatcher ==
    \/ ((thread = None \/ run_flag) /\ StartClicked)
    \/ WatcherStep(MaxTime)

SpecWatcher == Init /\ [][NextWatcher]_vars

----------------------------------------------------------------------------
(* SpecStop: sessions stopped and restarted while the threads run.  A       *)
(* thread that is runnable gets the processor again and its sampler call    *)
(* and its sleep return, hence the weak fairness of the threads' steps.     *)
(* The time bound holds back running watchers only: a stopped watcher's     *)
(* thread finishes its iteration whatever the time.                         *)

NextStop ==
    \/ (Cardinality(orphans) <= MaxOrphans /\ StartClicked)
    \/ WatcherStep(MaxStopTime)
    \/ OrphanStep(MaxStopTime)

SpecStop ==
    /\ Init /\ [][NextStop]_vars
    /\ WF_vars(WatcherStep(MaxStopTime))
    /\ \A id \in 0..MaxOrphans : WF_vars(OrphanStepOf(id, MaxStopTime))

----------------------------------------------------------------------------
(* SpecSession: sessions with both timers firing, paused and resumed, and   *)
(* the window length set through the dialog.                                *)

\* The widgets' values at Apply in SpecSession: the window length is edited.
SessionWidgets(d) ==
    { [ spCycle |-> cb, spPeriod |-> d.action_period, spDrift |-> d.drift_range,
        spReset |-> d.reset_prob,
        spPoll |-> d.presence_poll, spStep |-> d.mouse_step,
        spAccel |-> d.mouse_accel, spMax |-> d.mouse_max,
        spKeyDelay |-> d.key_delay, cbAdminless |-> d.adminless,
        spMouseDom |-> d.mouse_dom, spKeyDom |-> d.key_dom ] :
      cb \in {1, CYCLE_BITS_DEFAULT} }

NextSession ==
    \/ StartClicked
    \/ PauseClicked
    \/ CycleTick(TimerGaps, MaxSessionTime, MaxSessionWindows)
    \/ ActionTick
    \/ SettingsOpen
    \/ SettingsApplyOf(SessionWidgets(dlg.state))
    \/ SettingsClose

SpecSession == Init /\ [][NextSession]_vars

----------------------------------------------------------------------------
(* SpecSettings: the dialog applied before, during and after sessions, with *)
(* every parameter of the live components edited.                           *)

\* The widgets' values at Apply in SpecSettings.
LiveWidgets(d) ==
    { [ spCycle |-> cb, spPeriod |-> ap, spDrift |-> dr, spReset |-> rp,
        spPoll |-> pp, spStep |-> d.mouse_step,
        spAccel |-> d.mouse_accel, spMax |-> d.mouse_max,
        spKeyDelay |-> d.key_delay, cbAdminless |-> d.adminless,
        spMouseDom |-> d.mouse_dom, spKeyDom |-> d.key_dom ] :
      cb \in {1, CYCLE_BITS_DEFAULT},
      ap \in {ACTION_PERIOD_SEC_DEFAULT, 2010},
      dr \in {0, TOKEN_DRIFT_RANGE_DEFAULT},
      rp \in {RESET_PROBABILITY_DEFAULT, 1000},
      pp \in {PRESENCE_POLL_INTERVAL_DEFAULT, 1000} }

NextSettings ==
    \/ StartClicked
    \/ SettingsOpen
    \/ SettingsApplyOf(LiveWidgets(dlg.state))
    \/ SettingsClose

SpecSettings == Init /\ [][NextSettings]_vars

----------------------------------------------------------------------------
(* SpecKeepalive: the cycle ticks of the first session over more than one   *)
(* keepalive interval, the session paused and resumed, with the window      *)
(* length set through the dialog.                                           *)

NextKeepalive ==
    \/ ((clock = None \/ run_flag) /\ StartClicked)
    \/ PauseClicked
    \/ CycleTick(TimerGaps, MaxKeepaliveTime, MaxKeepaliveWindows)
    \/ SettingsOpen
    \/ SettingsApplyOf(SessionWidgets(dlg.state))
    \/ SettingsClose

SpecKeepalive == Init /\ [][NextKeepalive]_vars

----------------------------------------------------------------------------
(* SpecHistory: both timers firing while the recent-bit history grows past  *)
(* eight bits.                                                              *)

NextHistory ==
    \/ StartClicked
    \/ CycleTick({timer_cycle}, MaxHistoryTime, 0)
    \/ ActionTick

SpecHistory == Init /\ [][NextHistory]_vars

----------------------------------------------------------------------------
(* SpecPointer: action ticks in every mode, with the step size, the         *)
(* acceleration and the maximum step edited through the dialog.             *)

\* The widgets' values at Apply in SpecPointer: the defaults, a base step
\* above the default, no acceleration, and a maximum below the base step.
PointerWidgets(d) ==
    { [ spCycle |-> d.cycle_bits, spPeriod |-> d.action_period,
        spDrift |-> d.drift_range, spReset |-> d.reset_prob,
        spPoll |-> d.presence_poll, spStep |-> ms,
        spAccel |-> ac, spMax |-> mx,
        spKeyDelay |-> d.key_delay, cbAdminless |-> d.adminless,
        spMouseDom |-> d.mouse_dom, spKeyDom |-> d.key_dom ] :
      ms \in {MOUSE_STEP_DEFAULT, MOUSE_STEP_DEFAULT + MaxStepRaise},
      ac \in {0, MOUSE_ACCEL_DEFAULT},
      mx \in {MOUSE_STEP_DEFAULT + MaxStepRaise - 1, MOUSE_MAX_STEP_DEFAULT} }

NextPointer ==
    \/ StartClicked
    \/ KeyPress
    \/ ActionTickObs(TRUE)
    \/ SettingsOpen
    \/ SettingsApplyOf(PointerWidgets(dlg.state))
    \/ SettingsClose

SpecPointer == Init /\ [][NextPointer]_vars

----------------------------------------------------------------------------
(* SpecRace: one session whose cycle ticks interleave with the steps of the *)
(* watcher's thread, up to MaxRaceTime ms after construction.               *)

NextRace ==
    \/ ((thread = None \/ run_flag) /\ StartClicked)
    \/ WatcherStep(MaxRaceTime)
    \/ CycleTick({timer_cycle}, MaxRaceTime, 0)
    \/ CycleTickRace({timer_cycle}, MaxRaceTime, 0)

SpecRace == Init /\ [][NextRace]_vars

----------------------------------------------------------------------------
(* SpecCadence: one session that is never paused, with cycle_bits chosen in *)
(* the dialog before it starts and left alone, ticking for MaxCadenceTime   *)
(* ms.                                                                      *)

\* The widgets' values at Apply in SpecCadence: cycle_bits 1..MaxCadenceCycle,
\* a reset that may or may not fire.
CadenceWidgets(d) ==
    { [ spCycle |-> cb, spPeriod |-> d.action_period,
        spDrift |-> d.drift_range, spReset |-> rp,
        spPoll |-> d.presence_poll, spStep |-> d.mouse_step,
        spAccel |-> d.mouse_accel, spMax |-> d.mouse_max,
        spKeyDelay |-> d.key_delay, cbAdminless |-> d.adminless,
        spMouseDom |-> d.mouse_dom, spKeyDom |-> d.key_dom ] :
      cb \in 1 .. MaxCadenceCycle,
      rp \in {RESET_PROBABILITY_DEFAULT, 1000} }

\* The tables a run of SpecCadence starts from: ShuffledTable, and a shuffle
\* that puts the sentinel in slot 48, where the window [0, 0, 0] hashes.
CadenceTables == {ShuffledTable, make_token_table(TRUE, << <<0, 48>> >>)}

InitCadence ==
    /\ TOKENS \in CadenceTables
    /\ clock = None
    /\ call = Call("import")
    /\ memo = None
    /\ AppInit

NextCadence ==
    \/ ((clock = None \/ run_flag) /\ StartClicked)
    \/ (clock = None /\ SettingsOpen)
    \/ SettingsApplyOf(CadenceWidgets(dlg.state))
    \/ SettingsClose
    \/ CycleTick({timer_cycle}, MaxCadenceTime, MaxCadenceWindows)

SpecCadence == InitCadence /\ [][NextCadence]_vars

----------------------------------------------------------------------------
(* Spec: the main window from construction on.                             *)

Next ==
    \/ KeyPress
    \/ SliderMoved
    \/ SettingsOpen
    \/ SettingsApply
    \/ SettingsClose
    \/ StartClicked
    \/ PauseClicked
    \/ ActionTick

Spec == Init /\ [][Next]_vars

----------------------------------------------------------------------------
(* The claims.                                                             *)

\* C1: in every reachable state of a DriftClock, under any interleaving of
\* add_bit, emit, reset events and reset_params, |drift| <= 8 * drift_range
\* for the drift_range currently configured.  (Checked under SpecDrift.)
C1_DriftBoundAlways ==
    Abs(clock.drift) <= DriftClampFactor * clock.drift_range

\* C2: right after any emit() returns, |drift| <= 8 * drift_range, whatever
\* the prior drift and the perturbation were; when a reset fires, drift is 0.
\* (Checked under SpecDrift.)
C2_DriftBoundAfterEmit ==
    call.op = "emit" =>
        /\ Abs(clock.drift) <= DriftClampFactor * clock.drift_range
        /\ call.reset => clock.drift = 0

\* An emit that found the drift below the lower bound of the current range
\* (the range was lowered since the last emit) and no reset fired.
C2_Witness ==
    /\ call.op = "emit"
    /\ ~call.reset
    /\ clock.drift_range > 0
    /\ call.drift0 < -(DriftClampFactor * clock.drift_range)

\* C3: for a fixed table and window size the token emit() returns is a
\* function of the window alone: an emission whose window equals that of a
\* remembered earlier emission returns the same token, whatever the drift,
\* the leftover bits, the earlier emissions, resets and draws were.
\* (Checked under SpecClock.)
C3_EmitDeterministic ==
    (/\ call.op = "emit"
     /\ memo # None
     /\ memo.cycle_bits = call.cycle_bits
     /\ memo.out = call.out)
        => call.token = memo.token

\* A second emission of the remembered window, with another drift and with
\* bits queued beyond the window.
C3_Witness ==
    /\ call.op = "emit"
    /\ memo # None
    /\ memo.n < clock.window_counter
    /\ memo.cycle_bits = call.cycle_bits
    /\ memo.out = call.out
    /\ Len(call.out) = call.cycle_bits
    /\ call.drift0 # 0
    /\ Len(call.pre) > Len(call.out)

\* C4: for every window of cycle_bits bits emit() returns
\* table[h(window) & 63], h the first digest byte of SHA-256 over the window,
\* one byte per bit in arrival order; with cycle_bits = 8 and the bits
\* [1,0,1,1,0,0,1,0] (digest byte 148, index 20) the token is table[20]; and
\* after an emit of exactly one window full() is False.
\* (Checked under SpecWindow8.)
C4_EmitHashesWindow ==
    (call.op = "emit" /\ Len(call.pre) >= call.cycle_bits) =>
        /\ call.out = SubSeq(call.pre, 1, call.cycle_bits)
        /\ call.token = TOKENS[(sha256_byte0(call.out) % 64) + 1]
        /\ call.out = ScenarioBits => call.token = TOKENS[(148 % 64) + 1]
        /\ Len(call.pre) = call.cycle_bits => ~full(clock)

\* The scenario: the eight bits fed, then emit.
C4_Witness ==
    /\ call.op = "emit"
    /\ call.cycle_bits = ScenarioCycleBits
    /\ call.pre = ScenarioBits
    /\ call.token = TOKENS[21]
    /\ clock.bits = <<>>

\* C5: with n >= cycle_bits bits buffered and no reset event, emit() removes
\* exactly the first cycle_bits bits and keeps the other n - cycle_bits in
\* order; full() holds afterwards exactly when at least cycle_bits further
\* bits were queued beyond the window.  (Checked under SpecReset.)
C5_EmitConsumesWindow ==
    (call.op = "emit" /\ ~call.reset /\ Len(call.pre) >= call.cycle_bits) =>
        /\ Len(clock.bits) = Len(call.pre) - call.cycle_bits
        /\ \A i \in 1 .. Len(clock.bits) :
               clock.bits[i] = call.pre[call.cycle_bits + i]
        /\ full(clock) <=> Len(call.pre) >= 2 * call.cycle_bits

\* An emit that left a mixed leftover shorter than a window.
C5_Witness ==
    /\ call.op = "emit"
    /\ ~call.reset
    /\ call.cycle_bits = 2
    /\ Len(call.pre) = 3
    /\ clock.bits = <<1>>
    /\ ~full(clock)

\* C6: with reset_prob = 1.0, whenever emit() draws the RESET sentinel the
\* buffer is empty and drift is 0 when it returns, and the instance is kept
\* (its parameters stand, its window counter went up).
\* (Checked under SpecReset.)
C6_ResetClearsClock ==
    (call.op = "emit" /\ call.token = RESET_TOKEN /\ clock.reset_prob = 1000) =>
        /\ call.reset
        /\ clock.bits = <<>>
        /\ clock.drift = 0
        /\ clock.cycle_bits = call.cycle_bits
        /\ clock.window_counter > 0

\* The scenario: one window that hashes to RESET plus 5 leftover bits, and a
\* drift other than 0 before the emit.
C6_Witness ==
    /\ call.op = "emit"
    /\ call.token = RESET_TOKEN
    /\ clock.reset_prob = 1000
    /\ Len(call.pre) = call.cycle_bits + 5
    /\ call.drift0 # 0
    /\ clock.bits = <<>>

\* C7: emit() has no failure outcome: on a full, a partially filled and an
\* empty buffer, for every cycle_bits >= 1, the index computed lies in
\* [0, 64) and the value returned is an entry of the 64-entry table.
\* (Checked under SpecClock.)
C7_EmitAlwaysValid ==
    call.op = "emit" =>
        /\ call.idx \in 0 .. 63
        /\ Len(TOKENS) = TableSize
        /\ \E i \in 1 .. TableSize : call.token = TOKENS[i]

\* An emit on a partially filled buffer.
C7_Witness ==
    /\ call.op = "emit"
    /\ Len(call.pre) > 0
    /\ Len(call.pre) < call.cycle_bits
    /\ call.idx \in 0 .. 63

\* C8: the table make_token_table builds, shuffled or not, has exactly 64
\* entries, exactly one of them the RESET sentinel, the other 63 pairwise
\* distinct.  (Checked under SpecTable.)
C8_TokenTableShape ==
    call.op = "make_token_table" =>
        /\ Len(TOKENS) = TableSize
        /\ Cardinality({i \in DOMAIN TOKENS : TOKENS[i] = RESET_TOKEN}) = 1
        /\ \A i, j \in DOMAIN TOKENS : i # j => TOKENS[i] # TOKENS[j]

\* A shuffled table whose sentinel left slot 0.
C8_Witness ==
    /\ call.op = "make_token_table"
    /\ call.shuffled
    /\ TOKENS[1] # RESET_TOKEN

\* C9: mouse_dom + key_dom = 100 in the settings record in every reachable
\* state: initially, after any slider change, after any Apply of the
\* Settings dialog whatever its key-dominance field held, and after Close.
C9_DominanceSum ==
    state.mouse_dom + state.key_dom = 100

\* An Apply whose key-dominance field held a value that does not complement
\* the mouse dominance, which was changed in the dialog.
C9_Witness ==
    /\ ui.ev = "apply"
    /\ ui.key_entered + state.mouse_dom # 100
    /\ state.mouse_dom # MOUSE_DOMINANCE_DEFAULT

\* C10: in Auto mode a dominance weight of 0 forces the other domain on every
\* action tick: mouse_dom = 0, key_dom = 100 picks the Key domain and
\* mouse_dom = 100, key_dom = 0 the Pointer domain, whatever the draw.
C10_ZeroWeightForcesDomain ==
    (ui.ev = "action" /\ mode_index = 2) =>
        /\ (state.mouse_dom = 0 /\ state.key_dom = 100) => ui.domain = "Keyboard"
        /\ (state.mouse_dom = 100 /\ state.key_dom = 0) => ui.domain = "Mouse"

\* An action tick in Auto mode with mouse_dom = 0.
C10_Witness ==
    /\ ui.ev = "action"
    /\ mode_index = 2
    /\ state.mouse_dom = 0
    /\ state.key_dom = 100
    /\ ui.domain = "Keyboard"

\* C11: when the actuator dispatch of an action tick fails, for a pointer
\* action as for a key action, the failure does not leave the tick: the tick
\* surfaces its token with a skip result tag and the session keeps running.
\* (Checked under Spec.  A tick whose dispatch failed shows "key-skip", the tag
\* key_press returns, or "raise", the exception leaving _on_action_tick.)
C11_DispatchFailureSkips ==
    (ui.ev = "action" /\ ui.result \in {"raise", "key-skip"}) =>
        /\ ui.result = "key-skip"
        /\ ui.token # "None"
        /\ run_flag
        /\ timer_action > 0

\* C12: once the sampler stops yielding the target, the watcher keeps
\* reporting the status of the last sighting at every poll iteration that
\* begins less than OFFLINE_GRACE_SECONDS after the sighting's, and reports
\* "offline" from the first iteration that begins at least that long after.
\* (Checked under SpecWatcher, right after each poll that did not yield the
\* target.)
C12_OfflineAfterGrace ==
    (thread # None /\ thread.pc = "sleep" /\ thread.res \in {"empty", "absent"}
       /\ thread.seen_st # "None") =>
        IF thread.t0 - thread.seen_ts >= OFFLINE_GRACE_SECONDS
        THEN watcher.state = "offline"
        ELSE watcher.state = thread.seen_st

\* The target was last seen online and the poll that begins exactly
\* OFFLINE_GRACE_SECONDS later, finding nothing, reports offline.
C12_Witness ==
    /\ thread # None /\ thread.pc = "sleep"
    /\ thread.res \in {"empty", "absent"}
    /\ thread.seen_st = "online"
    /\ thread.t0 - thread.seen_ts = OFFLINE_GRACE_SECONDS
    /\ watcher.state = "offline"

\* C14: after _stop has called watcher.stop(), the watcher's thread begins no
\* further poll (it enters the sampler call only from a loop test that found
\* the flag set), and it returns from run(); this holds as well for a
\* watcher that a restart has replaced.  (Checked under SpecStop.)
C14_StoppedThreadTerminates ==
    /\ [][(thread # None /\ thread' # None /\ thread.pc # "poll"
              /\ thread'.pc = "poll") => watcher.running]_vars
    /\ [][\A o \in orphans' :
              o.th.pc = "poll" =>
                  \/ o \in orphans
                  \/ o = [id |-> o.id, w |-> watcher, th |-> thread]]_vars
    /\ (watcher # None /\ ~watcher.running)
           ~> (watcher # None /\ (thread.pc = "done" \/ watcher.running))
    /\ \A id \in 0..MaxOrphans :
           (\E o \in orphans : o.id = id) ~> ~(\E o \in orphans : o.id = id)

\* A watcher that polled, was stopped, and whose thread has returned.
C14_Witness ==
    /\ watcher # None /\ ~watcher.running
    /\ thread.pc = "done"
    /\ thread.res # "None"

\* C13: from a paused session no step (cycle tick, action tick or any other
\* handler) changes the DriftClock's bit buffer, drift or window counter,
\* surfaces a cycle token, or dispatches a pointer or key action.
\* (Checked under SpecSession.)
C13_PausedFrame ==
    [][paused =>
          /\ clock'.bits = clock.bits
          /\ clock'.drift = clock.drift
          /\ clock'.window_counter = clock.window_counter
          /\ cur_step' = cur_step
          /\ ui'.ev # "action"
          /\ ~(ui'.ev = "tick" /\ ui'.kind = "cycle")]_vars

\* A cycle tick has fired in a paused session whose buffer holds a full
\* window (the window length was lowered during the pause).
C13_Witness ==
    /\ paused
    /\ ui.ev = "tick"
    /\ full(clock)

\* C15: while a session runs, the live components hold the settings record's
\* values: the DriftClock's cycle_bits (clamped to >= 1), drift_range and
\* reset_prob, the watcher's poll interval, and the action timer's period,
\* which equals action_period (both in ms here).  (Checked under
\* SpecSettings.)
C15_LiveSettings ==
    run_flag =>
        /\ clock.cycle_bits = Max(1, state.cycle_bits)
        /\ clock.drift_range = state.drift_range
        /\ clock.reset_prob = state.reset_prob
        /\ watcher.poll_interval = state.presence_poll
        /\ timer_action = state.action_period

\* C16 as stated: in any cycle tick of a running session, if no cycle
\* emission has occurred within the keepalive interval before the tick and
\* none occurs in the tick, the tick surfaces a token tagged keepalive.
\* (Checked under SpecKeepalive.)
C16_KeepaliveEveryTick ==
    (ui.ev = "tick" /\ ui.kind # "cycle"
       /\ ui.t - surfaced.cycle >= keepalive_seconds) =>
        /\ ui.kind = "keepalive"
        /\ ui.token # "None"

\* C16 as amended: in any cycle tick of a running session, if no token,
\* cycle emission or keepalive, has been surfaced within the keepalive
\* interval before the tick and no cycle emission occurs in the tick, the
\* tick surfaces a token tagged keepalive, a tag other than the cycle
\* emissions'.  (Checked under SpecKeepalive.)
C16_KeepaliveAfterSilence ==
    (ui.ev = "tick" /\ ui.kind # "cycle"
       /\ ui.t - surfaced.before >= keepalive_seconds) =>
        /\ ui.kind = "keepalive"
        /\ ui.token # "None"

\* A keepalive token surfaced exactly one keepalive interval after a cycle
\* emission, the ticks since surfacing nothing.
C16_Witness ==
    /\ ui.ev = "tick" /\ ui.kind = "keepalive"
    /\ surfaced.cycle > 0
    /\ surfaced.before = surfaced.cycle
    /\ ui.t - surfaced.before = keepalive_seconds

\* C17: the hash input of every action tick is at most the 8 most recent
\* bits of the history, or one fixed default pattern (the same whatever the
\* presence state) when the history holds fewer than 8 bits, followed by the
\* salt [1,0,1,0,0,1,0,1]; it is never longer than 16 bits.  (Checked under
\* SpecHistory; the default pattern is taken to be the all-zero one, which
\* the code uses for a presence that is not active.)
C17_HashInputAtMost16Bits ==
    ui.ev = "action" =>
        LET n == Len(ui.seed) - Len(SALT)
            h == Len(last_bits)
        IN  /\ Len(ui.seed) <= 16
            /\ SubSeq(ui.seed, n + 1, Len(ui.seed)) = SALT
            /\ SubSeq(ui.seed, 1, n) =
                   IF h < 8 THEN Repeat(0, 8) ELSE SubSeq(last_bits, h - 7, h)

\* C18: of two directional nudges in consecutive action ticks under the same
\* settings, the second uses the first's step size plus mouse_accel, clamped
\* to mouse_max; and the step size of any nudge is at most mouse_max.
\* (Checked under SpecPointer.)
C18_NudgeRamp ==
    (ui.ev = "action" /\ ui.kind = "nudge") =>
        /\ cur_step <= state.mouse_max
        /\ ui.prev = "nudge" =>
               cur_step = Min(state.mouse_max, ui.step0 + state.mouse_accel)

\* The second of two consecutive nudges, cut short by the maximum.
C18_Witness ==
    /\ ui.ev = "action" /\ ui.kind = "nudge" /\ ui.prev = "nudge"
    /\ ui.step0 < state.mouse_max
    /\ ui.step0 + state.mouse_accel > state.mouse_max
    /\ cur_step = state.mouse_max

\* C19: any non-nudge action of an action tick (click, scroll or drag of the
\* Pointer domain, any action of the Key domain) leaves the step size at the
\* base value mouse_step.  (Checked under SpecPointer.)
C19_NonNudgeResetsStep ==
    (ui.ev = "action" /\ ui.kind # "nudge") => cur_step = state.mouse_step

\* C20: a cycle tick that surfaces a keepalive token leaves the DriftClock as
\* the tick would without the keepalive: the bit buffer with at most the bit
\* ingested in that tick appended (none while paused), and drift, window
\* counter and parameters as they were.  (Checked under SpecKeepalive.)
C20_KeepaliveLeavesClock ==
    [][(now' # now /\ ui'.ev = "tick" /\ ui'.kind = "keepalive"
          /\ ui'.t = now') =>
           clock' = IF paused THEN clock
                    ELSE add_bit(clock, IF watcher.state \in ACTIVE_STATES
                                        THEN 1 ELSE 0)]_vars

\* A keepalive surfaced by a tick that ingested a bit, in a clock that has
\* already closed a window.
C20_Witness ==
    /\ ui.ev = "tick" /\ ui.kind = "keepalive" /\ ui.t = now
    /\ run_flag /\ ~paused
    /\ clock.window_counter >= 1
    /\ Len(clock.bits) >= 1

\* C21: in every cycle tick of a running session, paused or not, a bit is
\* appended to the recent-bit history (last_bits) if and only if the same bit
\* is appended to the DriftClock's buffer in that tick.  (Checked under
\* SpecSession.)
C21_SameBitStream ==
    [][(now' # now /\ run_flag /\ ui'.ev = "tick" /\ ui'.t = now') =>
           \A b \in {0, 1} :
               (last_bits' = Append(last_bits, b)) <=>
                   \/ call'.op = "add_bit" /\ clock' = add_bit(clock, b)
                   \/ call'.op = "emit" /\ call'.pre = Append(clock.bits, b)]_vars

\* C22: an action tick changes no persistent state but the step size: the
\* DriftClock, the recent-bit history, the keepalive timestamp, the mode and
\* the settings record are as before it, and so are the session flags, the
\* timers, the watcher and the token table.  (Checked under SpecSession,
\* where an action tick is the only step that leaves an action event
\* surfaced without time passing.)
C22_ActionTickFrame ==
    [][(ui'.ev = "action" /\ now' = now) =>
           UNCHANGED <<clock, last_bits, last_emit_ts, mode_index, state,
                       run_flag, paused, timer_action, timer_cycle, watcher,
                       driver, TOKENS>>]_vars

\* An action tick has raised the step size in a session whose clock and
\* history hold bits and whose keepalive timer has been restarted.
C22_Witness ==
    /\ ui.ev = "action" /\ ui.kind = "nudge"
    /\ cur_step > state.mouse_step
    /\ clock # None /\ Len(clock.bits) >= 1
    /\ Len(last_bits) >= 1
    /\ last_emit_ts > 0

\* C23: every session start installs a new DriftClock that has an empty bit
\* buffer, drift 0 and no closed window and carries the current settings,
\* whatever the clock of an earlier session held, in any sequence of Start,
\* Stop and Pause clicks.  (Checked under SpecSession.)
C23_FreshClockPerSession ==
    [][(~run_flag /\ run_flag') =>
           clock' = [ bits           |-> <<>>,
                      cycle_bits     |-> state.cycle_bits,
                      drift_range    |-> state.drift_range,
                      reset_prob     |-> state.reset_prob,
                      drift          |-> 0,
                      window_counter |-> 0 ]]_vars

\* A session has just started after one whose clock closed a window and
\* whose ticks filled the history.
C23_Witness ==
    /\ run_flag /\ ui.ev = "start"
    /\ clock.bits = <<>> /\ clock.drift = 0 /\ clock.window_counter = 0
    /\ surfaced.cycle > 0
    /\ Len(last_bits) >= 1

\* C24: at any time at most one presence-poll thread is inside a poll of the
\* shared browser driver (the sampler call of run()), across any sequence of
\* Start and Stop clicks: the thread of a stopped session's watcher never
\* polls while the thread of the next session's watcher does.  (Checked
\* under SpecStop.)
C24_SinglePoller ==
    Cardinality({o \in orphans : o.th.pc = "poll"})
        + (IF thread # None /\ thread.pc = "poll" THEN 1 ELSE 0) <= 1

\* C25: in every cycle tick the presence label surfaced and the bit ingested
\* come from one observation of watcher.state: the label is an active state
\* exactly when the bit ingested is 1, under any interleaving with the
\* writes of the watcher's thread.  (Checked under SpecRace.)
C25_LabelMatchesBit ==
    (ui.ev = "tick" /\ Len(last_bits) >= 1) =>
        (ui.presence \in ACTIVE_STATES <=> last_bits[Len(last_bits)] = 1)

\* C26: after every cycle tick of a running, unpaused session the DriftClock
\* is Filling again: its buffer holds fewer than cycle_bits bits, under any
\* sequence of ticks, pause toggles and settings updates, lowered cycle_bits
\* included.  (Checked under SpecSession.)
C26_FillingAfterTick ==
    (ui.ev = "tick" /\ run_flag /\ ~paused) =>
        Len(clock.bits) < clock.cycle_bits

\* C27: the cycle tick calls emit() only on a buffer of at least cycle_bits
\* bits, and a token surfaced with the cycle tag is the hash of a window of
\* exactly cycle_bits bits, the first of the buffer, for the cycle_bits in
\* force at that tick, also when cycle_bits was changed mid-session.
\* (Checked under SpecSession.)
C27_EmitOnlyWhenFull ==
    /\ (ui.ev = "tick" /\ ui.kind = "cycle") =>
           /\ call.op = "emit"
           /\ call.cycle_bits = clock.cycle_bits
           /\ call.token = ui.token
    /\ (run_flag /\ call.op = "emit") =>
           /\ Len(call.pre) >= call.cycle_bits
           /\ Len(call.out) = call.cycle_bits
           /\ call.out = Take(call.pre, call.cycle_bits)
           /\ call.token = token_at(sha_index(call.out))

\* A cycle token emitted from a buffer that held more than the window, after
\* cycle_bits was lowered in the session.
C27_Witness ==
    /\ ui.ev = "tick" /\ ui.kind = "cycle"
    /\ call.op = "emit"
    /\ Len(call.pre) > call.cycle_bits

\* C28: in a running session that is never paused and whose cycle_bits = N is
\* never changed, the cycle tick emits a cycle token on the ticks N, 2N,
\* 3N, ... counted from the session's start and on no other tick, whether
\* or not a reset event fires.  (Checked under SpecCadence, where the
\* history holds one bit per tick of the session.)
C28_EmitEveryNthTick ==
    (ui.ev = "tick" /\ Len(last_bits) < HistoryCap) =>
        (ui.kind = "cycle" <=> Len(last_bits) % clock.cycle_bits = 0)

\* The second window of a session with cycle_bits 3 closes on tick 6, after a
\* reset event.
C28_Witness ==
    /\ ui.ev = "tick" /\ ui.kind = "cycle"
    /\ clock.cycle_bits = 3 /\ Len(last_bits) = 6
    /\ call.reset

\* C29: at every session start the recent-bit history is empty, so that what
\* the action tick and the keepalive hash holds only bits of the current
\* session.  (Checked under SpecSession.)
C29_HistoryEmptyAtStart ==
    (ui.ev = "start" /\ run_flag) => last_bits = <<>>

\* C30: _paused is set only while a session is running: paused implies
\* running in every state reached by Start, Stop, Pause and failed starts,
\* a Pause click without a session leaving the flag alone.  (Checked under
\* Spec.)
C30_PausedImpliesRunning ==
    paused => run_flag

\* A Pause click has paused a running session.
C30_Witness ==
    paused /\ run_flag /\ ui.ev = "pause"

============================================================================
